---- MODULE Spec2Model ----
(***************************************************************************)
(* A model of package approx (github.com/filmil/approx): numbers with an   *)
(* uncertainty, Float64{val, delta}, and the operations on them.           *)
(*                                                                         *)
(* float64 is modelled as a binary floating-point format of the IEEE-754   *)
(* family scaled down to P bits of precision: signed zeros, gradual        *)
(* underflow, rounding to nearest (ties to even), overflow to an infinity, *)
(* and NaN.  A finite float is a sign and a magnitude counted in quanta of *)
(* 2^-FracBits; a magnitude m is representable iff m = mant * 2^e with     *)
(* mant < 2^P and 0 <= e <= EMax.                                          *)
(***************************************************************************)
EXTENDS Integers, Sequences, FiniteSets, TLC

\* ------------------------------------------------------------------ bounds
\* Bits of precision of the scaled-down float64.
P == 4
\* Largest binary exponent of a magnitude (in quanta).
EMax == 3
\* The quantum is 2^-FracBits.
FracBits == 3
\* Longest chain of operations feeding a result into the next operation.
MaxDepth == 2

\* ------------------------------------------------------------- float64
Pow2(n) == 2 ^ n
Unit == Pow2(FracBits)
MaxFinite == (Pow2(P) - 1) * Pow2(EMax)

Fin(s, m) == [s |-> s, m |-> m, k |-> "fin"]
Inf(s) == [s |-> s, m |-> 0, k |-> "inf"]
NaN == [s |-> 0, m |-> 0, k |-> "nan"]
Zero == Fin(0, 0)

IsNaN(a) == a.k = "nan"
IsInf(a) == a.k = "inf"
IsFin(a) == a.k = "fin"
IsZero(a) == a.k = "fin" /\ a.m = 0

Representable(m) ==
    /\ m <= MaxFinite
    /\ \E e \in 0..EMax : m % Pow2(e) = 0 /\ m \div Pow2(e) < Pow2(P)

Magnitudes == {m \in 0..MaxFinite : Representable(m)}
Floats == {Fin(s, m) : s \in {0, 1}, m \in Magnitudes} \cup {Inf(0), Inf(1), NaN}

\* The binade of a magnitude q < 2^(P+EMax): the least e with q < 2^(P+e).
ExpOf(q) == CHOOSE e \in 0..EMax : q < Pow2(P + e) /\ (e = 0 \/ q >= Pow2(P + e - 1))

\* The float nearest to (-1)^s * num/den quanta (num >= 0, den > 0): round to
\* nearest, ties to even; a result beyond MaxFinite is an infinity.
Round(s, num, den) ==
    LET q == num \div den IN
    IF q >= Pow2(P + EMax) THEN Inf(s)
    ELSE LET e == ExpOf(q)
             step == den * Pow2(e)
             mant == num \div step
             rem == num - mant * step
             up == IF 2 * rem > step \/ (2 * rem = step /\ mant % 2 = 1) THEN 1 ELSE 0
             m == (mant + up) * Pow2(e)
         IN  IF m > MaxFinite THEN Inf(s) ELSE Fin(s, m)

\* The signed count of quanta of a finite float.
Signed(a) == IF a.s = 1 THEN 0 - a.m ELSE a.m

FNeg(a) == IF IsNaN(a) THEN NaN ELSE [a EXCEPT !.s = 1 - a.s]

\* math.Abs
FAbs(a) == IF IsNaN(a) THEN NaN ELSE [a EXCEPT !.s = 0]

\* a + b
FAdd(a, b) ==
    IF IsNaN(a) \/ IsNaN(b) THEN NaN
    ELSE IF IsInf(a) /\ IsInf(b) THEN (IF a.s = b.s THEN a ELSE NaN)
    ELSE IF IsInf(a) THEN a
    ELSE IF IsInf(b) THEN b
    ELSE LET z == Signed(a) + Signed(b) IN
         IF z = 0 THEN (IF a.s = 1 /\ b.s = 1 THEN Fin(1, 0) ELSE Fin(0, 0))
         ELSE IF z < 0 THEN Round(1, 0 - z, 1)
         ELSE Round(0, z, 1)

\* a - b
FSub(a, b) == FAdd(a, FNeg(b))

Xor(s, t) == IF s = t THEN 0 ELSE 1

\* a * b
FMul(a, b) ==
    IF IsNaN(a) \/ IsNaN(b) THEN NaN
    ELSE IF (IsInf(a) /\ IsZero(b)) \/ (IsZero(a) /\ IsInf(b)) THEN NaN
    ELSE IF IsInf(a) \/ IsInf(b) THEN Inf(Xor(a.s, b.s))
    ELSE Round(Xor(a.s, b.s), a.m * b.m, Unit)

\* a / b
FDiv(a, b) ==
    IF IsNaN(a) \/ IsNaN(b) THEN NaN
    ELSE IF IsInf(a) /\ IsInf(b) THEN NaN
    ELSE IF IsZero(a) /\ IsZero(b) THEN NaN
    ELSE IF IsInf(a) \/ IsZero(b) THEN Inf(Xor(a.s, b.s))
    ELSE IF IsInf(b) THEN Fin(Xor(a.s, b.s), 0)
    ELSE Round(Xor(a.s, b.s), a.m * Unit, b.m)

\* a < b
FLt(a, b) ==
    /\ ~IsNaN(a)
    /\ ~IsNaN(b)
    /\ IF IsInf(a) THEN a.s = 1 /\ ~(IsInf(b) /\ b.s = 1)
       ELSE IF IsInf(b) THEN b.s = 0
       ELSE Signed(a) < Signed(b)

\* a == b
FEq(a, b) ==
    /\ ~IsNaN(a)
    /\ ~IsNaN(b)
    /\ IF IsFin(a) /\ IsFin(b) THEN Signed(a) = Signed(b) ELSE a = b

\* a <= b
FLe(a, b) == FLt(a, b) \/ FEq(a, b)

\* The float of a small integer i, and of i/2.
F(i) == IF i < 0 THEN Round(1, (0 - i) * Unit, 1) ELSE Round(0, i * Unit, 1)
Half(i) == IF i < 0 THEN Round(1, (0 - i) * Unit, 2) ELSE Round(0, i * Unit, 2)


\* Values of float64 the package's callers hand in.
MaxFloat64 == Fin(0, MaxFinite)
SmallestNonzeroFloat64 == Fin(0, 1)

\* --------------------------------------------------- math.Log, math.Exp
\* Both are computed in fixed point, to within the accuracy the library has
\* at this precision, and rounded to the format.
LogScale == Pow2(12)
ExpScale == Pow2(10)

\* The binade of a positive magnitude: the j with 2^j <= m < 2^(j+1).
Log2Floor(m) == CHOOSE j \in 0..(P + EMax) : Pow2(j) <= m /\ m < Pow2(j + 1)

\* ln(m / Unit) * LogScale for m > 0: k*ln 2 + 2*atanh((y-1)/(y+1)), y in [1,2).
LnFixed(m) ==
    LET j == Log2Floor(m)
        z == ((m - Pow2(j)) * LogScale) \div (m + Pow2(j))
        z2 == (z * z) \div LogScale
        t3 == (z * z2) \div LogScale
        t5 == (t3 * z2) \div LogScale
        t7 == (t5 * z2) \div LogScale
    IN  (j - FracBits) * 2839 + 2 * (z + t3 \div 3 + t5 \div 5 + t7 \div 7)

\* math.Log: NaN for x < 0, -Inf for x = 0, +Inf for +Inf, 0 for 1.
MathLog(a) ==
    IF IsNaN(a) THEN NaN
    ELSE IF IsZero(a) THEN Inf(1)
    ELSE IF a.s = 1 THEN NaN
    ELSE IF IsInf(a) THEN Inf(0)
    ELSE LET l == LnFixed(a.m) IN
         IF l < 0 THEN Round(1, (0 - l) * Unit, LogScale) ELSE Round(0, l * Unit, LogScale)

\* A fixed-point product, saturating far above MaxFinite.
ExpCap == Pow2(18)
SatMul(u, v) == LET w == (u * v) \div ExpScale IN IF w > ExpCap THEN ExpCap ELSE w

RECURSIVE EPow(_)
\* e^n * ExpScale, saturating.
EPow(n) == IF n = 0 THEN ExpScale ELSE SatMul(EPow(n - 1), 2784)

\* e^(f / Unit) * ExpScale for 0 <= f < Unit, by its Taylor series.
ExpFrac(f) ==
    LET t == (f * ExpScale) \div Unit
        t2 == (t * t) \div ExpScale
        t3 == (t2 * t) \div ExpScale
        t4 == (t3 * t) \div ExpScale
        t5 == (t4 * t) \div ExpScale
        t6 == (t5 * t) \div ExpScale
        t7 == (t6 * t) \div ExpScale
    IN  ExpScale + t + t2 \div 2 + t3 \div 6 + t4 \div 24 + t5 \div 120
          + t6 \div 720 + t7 \div 5040

\* e^(m / Unit) * ExpScale for m >= 0, saturating.
ExpFixed(m) ==
    LET n == m \div Unit IN
    IF n > 12 THEN ExpCap ELSE SatMul(EPow(n), ExpFrac(m % Unit))

\* math.Exp: +Inf for +Inf, 0 for -Inf, 1 for 0.
MathExp(a) ==
    IF IsNaN(a) THEN NaN
    ELSE IF IsInf(a) THEN (IF a.s = 0 THEN Inf(0) ELSE Zero)
    ELSE IF a.s = 0 THEN Round(0, ExpFixed(a.m) * Unit, ExpScale)
    ELSE Round(0, ((ExpScale * ExpScale) \div ExpFixed(a.m)) * Unit, ExpScale)

\* ------------------------------------------------------------- Float64
Float64(val, delta) == [val |-> val, delta |-> delta]

\* Float64{}
ZeroFloat64 == Float64(Zero, Zero)

Value(f) == f.val

Delta(f) == f.delta

\* Min returning the upper bound.
MinAddsDelta(f) == FAdd(f.val, f.delta)

Min(f) == FSub(f.val, f.delta)

Max(f) == FAdd(f.val, f.delta)

RelDelta(f) == FAbs(FDiv(f.delta, f.val))

\* New keeping the sign of delta.
NewKeepsSign(val, delta) == Float64(val, delta)

New(val, delta) == Float64(val, FAbs(delta))

\* NewMinMax rejecting min == max as well.
NewMinMaxRejectsEqual(min, max) ==
    IF FLe(max, min) THEN [f |-> ZeroFloat64, err |-> "range"]
    ELSE LET val == FDiv(FAdd(min, max), F(2))
             delta == FAbs(FDiv(FSub(max, min), F(2)))
         IN  [f |-> Float64(val, FAbs(delta)), err |-> "nil"]

\* NewMinMax returns (Float64, error).
NewMinMax(min, max) ==
    IF FLt(max, min) THEN [f |-> ZeroFloat64, err |-> "range"]
    ELSE LET val == FDiv(FAdd(min, max), F(2))
             delta == FAbs(FDiv(FSub(max, min), F(2)))
         IN  [f |-> New(val, delta), err |-> "nil"]

\* Add keeping the larger delta instead of the sum.
AddLargerDelta(a, b) ==
    New(FAdd(a.val, b.val), IF FLt(a.delta, b.delta) THEN b.delta ELSE a.delta)

Add(a, b) == New(FAdd(a.val, b.val), FAdd(a.delta, b.delta))

Sub(a, b) == New(FSub(a.val, b.val), FAdd(a.delta, b.delta))

\* Mul taking the larger relative error instead of the sum.
MulMaxRel(a, b) ==
    LET relA == FAbs(FDiv(a.delta, a.val))
        relB == FAbs(FDiv(b.delta, b.val))
        rel == IF FLt(relA, relB) THEN relB ELSE relA
        val == FMul(a.val, b.val)
        delta == FAbs(FMul(val, rel))
    IN  Float64(val, FAbs(delta))

Mul(a, b) ==
    LET relA == FAbs(FDiv(a.delta, a.val))
        relB == FAbs(FDiv(b.delta, b.val))
        rel == FAdd(relA, relB)
        val == FMul(a.val, b.val)
        delta == FAbs(FMul(val, rel))
    IN  New(val, delta)

\* The scalar product computed as the product with an approximate number
\* of delta 0.
ScalarMulAsApprox(f, c) == Mul(f, New(c, Zero))

\* func (f Float64) Mul(c float64) Float64
ScalarMul(f, c) == New(FMul(c, f.val), FAbs(FMul(c, f.delta)))

Div(a, b) ==
    LET relA == FAbs(FDiv(a.delta, a.val))
        relB == FAbs(FDiv(b.delta, b.val))
        rel == FAdd(relA, relB)
        val == FDiv(a.val, b.val)
        delta == FAbs(FMul(val, rel))
    IN  New(val, delta)

\* Lt answering true for intervals that touch.
LtOrEqual(f, t) == FLe(FAdd(f.val, f.delta), FSub(t.val, t.delta))

Lt(f, t) == FLt(FAdd(f.val, f.delta), FSub(t.val, t.delta))

\* Le answering false for intervals that touch.
LeStrict(f, t) == FLt(FAdd(f.val, f.delta), FSub(t.val, t.delta))

Le(f, t) == FLe(FAdd(f.val, f.delta), FSub(t.val, t.delta))

Gt(f, t) == Le(t, f)

Ge(f, t) == Lt(t, f)

\* Overlap asking for one of the two conditions only.
OverlapEither(f, t) ==
    \/ ~FLe(FAdd(f.val, f.delta), FSub(t.val, t.delta))
    \/ ~FLe(FAdd(t.val, t.delta), FSub(f.val, f.delta))

Overlap(f, t) == ~Le(f, t) /\ ~Le(t, f)

\* ---------------------------------------------------------------- Apply
\* The functions handed to Apply: math.Log, math.Exp, and the caller's own
\* func(x) { return x * x }, a constant function and the identity.
Funcs == {"Log", "Exp", "Square", "Const", "Id"}

\* fx(v)
Call(fx, v) ==
    CASE fx = "Log" -> MathLog(v)
      [] fx = "Exp" -> MathExp(v)
      [] fx = "Square" -> FMul(v, v)
      [] fx = "Const" -> F(3)
      [] OTHER -> v

\* The address of a function, which is what "%p" formats.
eqFunc(f1, f2) == f1 = f2

\* applyLog returning the quotient with its sign.
applyLogKeepsSign(f) == Float64(MathLog(f.val), FDiv(f.delta, f.val))

applyLog(f) ==
    LET delta == FDiv(f.delta, f.val)
        val == MathLog(f.val)
    IN  New(val, delta)

applyExp(f) ==
    LET val == MathExp(f.val)
        delta == FMul(val, f.delta)
    IN  New(val, delta)

Apply(f, fx, eps) ==
    IF eqFunc(fx, "Log") THEN applyLog(f)
    ELSE IF eqFunc(fx, "Exp") THEN applyExp(f)
    ELSE LET fmin == Call(fx, FSub(f.val, eps))
             fmax == Call(fx, FAdd(f.val, eps))
             d == FMul(F(2), eps)
             dfx == FDiv(FSub(fmax, fmin), d)
         IN  New(Call(fx, f.val), FAbs(FMul(dfx, f.delta)))

\* ---------------------------------------------------------------- Parse
\* A string is a sequence of characters; Sep stands for the one character
\* U+00B1, the plus-minus sign.
Sep == "+-"
DigitChars == <<"0", "1", "2", "3", "4", "5", "6", "7", "8", "9">>
IsDigit(c) == \E i \in 1..10 : DigitChars[i] = c
DigitVal(c) == (CHOOSE i \in 1..10 : DigitChars[i] = c) - 1

\* unicode.IsSpace, on the characters of the model
IsSpace(c) == c \in {" ", "\t", "\n"}

\* strings.Map dropping the spaces
StripSpace(s) == SelectSeq(s, LAMBDA c : ~IsSpace(c))

RECURSIVE Split(_)
\* strings.Split(s, "±")
Split(s) ==
    IF \A i \in 1..Len(s) : s[i] # Sep THEN <<s>>
    ELSE LET i == CHOOSE j \in 1..Len(s) : s[j] = Sep /\ \A l \in 1..(j - 1) : s[l] # Sep
         IN  <<SubSeq(s, 1, i - 1)>> \o Split(SubSeq(s, i + 1, Len(s)))

Lower(c) ==
    CASE c = "I" -> "i"
      [] c = "N" -> "n"
      [] c = "F" -> "f"
      [] c = "A" -> "a"
      [] OTHER -> c

LowerSeq(s) == [i \in 1..Len(s) |-> Lower(s[i])]

RECURSIVE DecValue(_)
\* The integer a sequence of digits writes.
DecValue(ds) ==
    IF ds = <<>> THEN 0
    ELSE 10 * DecValue(SubSeq(ds, 1, Len(ds) - 1)) + DigitVal(ds[Len(ds)])

\* strconv.ParseFloat(s, 64) on a sign, digits, a point, and the names of
\* the infinities and of NaN: (float64, ok).  A number too large for the
\* format is a range error.
ParseFloat(s) ==
    LET signed == s # <<>> /\ s[1] \in {"+", "-"}
        sign == IF signed /\ s[1] = "-" THEN 1 ELSE 0
        body == IF signed THEN SubSeq(s, 2, Len(s)) ELSE s
        low == LowerSeq(body)
        dots == {i \in 1..Len(body) : body[i] = "."}
        point == IF dots = {} THEN Len(body) + 1 ELSE CHOOSE i \in dots : TRUE
        int == SubSeq(body, 1, point - 1)
        frac == SubSeq(body, point + 1, Len(body))
        digits == int \o frac
        f == Round(sign, DecValue(digits) * Unit, 10 ^ Len(frac))
    IN  IF low = <<"i", "n", "f">> \/ low = <<"i", "n", "f", "i", "n", "i", "t", "y">>
        THEN [f |-> Inf(sign), ok |-> TRUE]
        ELSE IF ~signed /\ low = <<"n", "a", "n">> THEN [f |-> NaN, ok |-> TRUE]
        ELSE IF \/ Cardinality(dots) > 1
                \/ digits = <<>>
                \/ \E i \in 1..Len(digits) : ~IsDigit(digits[i])
        THEN [f |-> Zero, ok |-> FALSE]
        ELSE IF IsInf(f) THEN [f |-> f, ok |-> FALSE]
        ELSE [f |-> f, ok |-> TRUE]

\* Parse keeping the sign of the delta.
ParseKeepsSign(s) ==
    LET splitstr == Split(StripSpace(s)) IN
    IF Len(splitstr) = 1
    THEN LET val == ParseFloat(splitstr[1]) IN
         IF ~val.ok THEN [f |-> ZeroFloat64, err |-> "exact"]
         ELSE [f |-> Float64(val.f, Zero), err |-> "nil"]
    ELSE IF Len(splitstr) = 2
    THEN LET val == ParseFloat(splitstr[1])
             delta == ParseFloat(splitstr[2])
         IN  IF ~val.ok THEN [f |-> ZeroFloat64, err |-> "exact"]
             ELSE IF ~delta.ok THEN [f |-> ZeroFloat64, err |-> "delta"]
             ELSE [f |-> Float64(val.f, delta.f), err |-> "nil"]
    ELSE [f |-> ZeroFloat64, err |-> "approx"]

\* Parse returns (Float64, error).
Parse(s) ==
    LET splitstr == Split(StripSpace(s)) IN
    IF Len(splitstr) = 1
    THEN LET val == ParseFloat(splitstr[1]) IN
         IF ~val.ok THEN [f |-> ZeroFloat64, err |-> "exact"]
         ELSE [f |-> Float64(val.f, Zero), err |-> "nil"]
    ELSE IF Len(splitstr) = 2
    THEN LET val == ParseFloat(splitstr[1])
             delta == ParseFloat(splitstr[2])
         IN  IF ~val.ok THEN [f |-> ZeroFloat64, err |-> "exact"]
             ELSE IF ~delta.ok THEN [f |-> ZeroFloat64, err |-> "delta"]
             ELSE [f |-> Float64(val.f, FAbs(delta.f)), err |-> "nil"]
    ELSE [f |-> ZeroFloat64, err |-> "approx"]

\* -------------------------------------------------------------- inputs
\* The float64 arguments callers pass: all finite.
Inputs == {F(-1), F(0), F(1), F(2), F(3), F(4), SmallestNonzeroFloat64, MaxFloat64}

\* The bounds handed to NewMinMax.
MinMaxInputs == Inputs \cup {F(10)}

\* The eps arguments of Apply.
EpsInputs == {F(1), F(-1), F(0), SmallestNonzeroFloat64}

\* The strings handed to Parse.
ParseInputs ==
    { <<"1">>,
      <<"-", "2">>,
      <<"3", Sep, "1">>,
      <<"3", " ", Sep, "-", "1">>,
      <<"3", Sep, "-", "-", "1">>,
      <<"x", Sep, "1">>,
      <<"1", Sep, "2", Sep, "3">>,
      <<"1", ".", "5", Sep, "0", ".", "5">>,
      <<"x", Sep, "-", "-", "1">>,
      <<"9", "9", Sep, "1">>,
      <<"n", "a", "n">>,
      <<>> }

\* The Float64s a caller constructs from its inputs.
Fresh == {New(val, delta) : val \in Inputs, delta \in Inputs}

\* Float64s a caller gets from one operation on those: an overflowed sum,
\* a product with a zero, a quotient by a zero.
Derived ==
    { Add(New(MaxFloat64, F(0)), New(MaxFloat64, F(1))),
      Add(New(MaxFloat64, MaxFloat64), New(MaxFloat64, MaxFloat64)),
      Mul(New(F(0), F(1)), New(F(1), F(1))),
      Div(New(F(-1), F(1)), New(F(0), F(1))) }

\* The Float64 operands of a single call.
Values == Fresh \cup Derived

\* The inputs of a chain of operations.
ChainInputs == {F(-2), F(0), F(1)}
ChainFresh == {New(val, delta) : val \in ChainInputs, delta \in ChainInputs}

\* ---------------------------------------------------------------- state
VARIABLES
    op,     \* the operation called last
    x, y,   \* its Float64 operands (receiver first)
    u, v,   \* its float64 arguments
    fx,     \* its function argument
    str,    \* its string argument
    r,      \* the Float64 it returned; the caller's current value
    err,    \* the error it returned, "nil" for none
    b,      \* the bool it returned
    depth   \* how many operations r is away from a constructor

vars == <<op, x, y, u, v, fx, str, r, err, b, depth>>

Init ==
    /\ op = "init"
    /\ x = ZeroFloat64
    /\ y = ZeroFloat64
    /\ u = Zero
    /\ v = Zero
    /\ fx = "Id"
    /\ str = <<>>
    /\ r = ZeroFloat64
    /\ err = "nil"
    /\ b = FALSE
    /\ depth = 0

\* The call made and what it returned.
Called(name, f, t, c, d, g, s, res, e, bool, n) ==
    /\ op' = name
    /\ x' = f
    /\ y' = t
    /\ u' = c
    /\ v' = d
    /\ fx' = g
    /\ str' = s
    /\ r' = res
    /\ err' = e
    /\ b' = bool
    /\ depth' = n

\* ------------------------------------------------- a chain of operations
\* The caller keeps one current value r: a constructor replaces it, an
\* operation combines it with itself or with a fresh Float64.
Operands == {<<r, t>> : t \in ChainFresh \cup {r}} \cup {<<t, r>> : t \in ChainFresh}

Returns(name, f, t, c, g, res) ==
    /\ depth < MaxDepth
    /\ Called(name, f, t, c, Zero, g, <<>>, res, "nil", FALSE, depth + 1)

Constructs(name, c, d, s, res) ==
    Called(name, ZeroFloat64, ZeroFloat64, c, d, "Id", s, res.f, res.err, FALSE, 0)

DoNew ==
    \E val \in ChainInputs, delta \in ChainInputs :
        Constructs("New", val, delta, <<>>, [f |-> New(val, delta), err |-> "nil"])

DoNewMinMax ==
    \E min \in ChainInputs, max \in ChainInputs :
        Constructs("NewMinMax", min, max, <<>>, NewMinMax(min, max))

DoParse == \E s \in ParseInputs : Constructs("Parse", Zero, Zero, s, Parse(s))

DoAdd == \E o \in Operands : Returns("Add", o[1], o[2], Zero, "Id", Add(o[1], o[2]))

DoSub == \E o \in Operands : Returns("Sub", o[1], o[2], Zero, "Id", Sub(o[1], o[2]))

DoMul == \E o \in Operands : Returns("Mul", o[1], o[2], Zero, "Id", Mul(o[1], o[2]))

DoDiv == \E o \in Operands : Returns("Div", o[1], o[2], Zero, "Id", Div(o[1], o[2]))

DoScalarMul ==
    \E c \in ChainInputs : Returns("ScalarMul", r, ZeroFloat64, c, "Id", ScalarMul(r, c))

DoApply ==
    \E g \in Funcs, eps \in EpsInputs :
        Returns("Apply", r, ZeroFloat64, eps, g, Apply(r, g, eps))

Next ==
    \/ DoNew
    \/ DoNewMinMax
    \/ DoParse
    \/ DoAdd
    \/ DoSub
    \/ DoMul
    \/ DoDiv
    \/ DoScalarMul
    \/ DoApply

Spec == Init /\ [][Next]_vars

\* ---------------------------------------------------------- single calls
\* Every function of the package is pure: one call on arguments drawn from
\* the inputs, recorded with what it returned.
Idle == op = "init"

Result(name, f, t, c, g, res) ==
    Called(name, f, t, c, Zero, g, <<>>, res, "nil", FALSE, 1)

Answer(name, f, t, bool) ==
    Called(name, f, t, Zero, Zero, "Id", <<>>, ZeroFloat64, "nil", bool, 1)

CallNew ==
    /\ Idle
    /\ \E val \in Inputs, delta \in Inputs :
        Called("New", ZeroFloat64, ZeroFloat64, val, delta, "Id", <<>>,
                  New(val, delta), "nil", FALSE, 1)

CallNewMinMax ==
    /\ Idle
    /\ \E min \in MinMaxInputs, max \in MinMaxInputs :
        LET res == NewMinMax(min, max) IN
        Called("NewMinMax", ZeroFloat64, ZeroFloat64, min, max, "Id", <<>>,
                  res.f, res.err, FALSE, 1)

\* NewMinMax(a.Min(), a.Max())
CallNewMinMaxOf ==
    /\ Idle
    /\ \E a \in Values :
        LET res == NewMinMax(Min(a), Max(a)) IN
        Called("NewMinMaxOf", a, ZeroFloat64, Min(a), Max(a), "Id", <<>>,
                  res.f, res.err, FALSE, 1)

CallParse ==
    /\ Idle
    /\ \E s \in ParseInputs :
        LET res == Parse(s) IN
        Called("Parse", ZeroFloat64, ZeroFloat64, Zero, Zero, "Id", s,
                  res.f, res.err, FALSE, 1)

CallAdd ==
    /\ Idle
    /\ \E a \in Values, t \in Values : Result("Add", a, t, Zero, "Id", Add(a, t))

CallSub ==
    /\ Idle
    /\ \E a \in Values, t \in Values : Result("Sub", a, t, Zero, "Id", Sub(a, t))

CallMul ==
    /\ Idle
    /\ \E a \in Values, t \in Values : Result("Mul", a, t, Zero, "Id", Mul(a, t))

CallDiv ==
    /\ Idle
    /\ \E a \in Values, t \in Values : Result("Div", a, t, Zero, "Id", Div(a, t))

CallScalarMul ==
    /\ Idle
    /\ \E f \in Values, c \in Inputs :
        Result("ScalarMul", f, ZeroFloat64, c, "Id", ScalarMul(f, c))

CallApply ==
    /\ Idle
    /\ \E f \in Values, g \in Funcs, eps \in EpsInputs :
        Result("Apply", f, ZeroFloat64, eps, g, Apply(f, g, eps))

CallLt ==
    /\ Idle
    /\ \E f \in Values, t \in Values : Answer("Lt", f, t, Lt(f, t))

CallLe ==
    /\ Idle
    /\ \E f \in Values, t \in Values : Answer("Le", f, t, Le(f, t))

CallGt ==
    /\ Idle
    /\ \E f \in Values, t \in Values : Answer("Gt", f, t, Gt(f, t))

CallGe ==
    /\ Idle
    /\ \E f \in Values, t \in Values : Answer("Ge", f, t, Ge(f, t))

CallOverlap ==
    /\ Idle
    /\ \E f \in Values, t \in Values : Answer("Overlap", f, t, Overlap(f, t))

NextCall ==
    \/ CallNew
    \/ CallNewMinMax
    \/ CallNewMinMaxOf
    \/ CallParse
    \/ CallAdd
    \/ CallSub
    \/ CallMul
    \/ CallDiv
    \/ CallScalarMul
    \/ CallApply
    \/ CallLt
    \/ CallLe
    \/ CallGt
    \/ CallGe
    \/ CallOverlap

SpecCall == Init /\ [][NextCall]_vars
\* ---------------------------------------------------------------- claims
IsNumber(a) == ~IsNaN(a)
Finite64(f) == IsFin(f.val) /\ IsFin(f.delta)

\* C1: every Float64 reachable by a sequence of New, NewMinMax, Parse, Add,
\* Sub, Mul, Div, scalar Mul and Apply from finite inputs has Delta() >= 0
\* (a NaN delta does not satisfy it).
C1_DeltaNonNegative == FLe(Zero, Delta(r))

\* C2: Add(a,b) has value a.val+b.val and delta a.delta+b.delta, Sub(a,b) has
\* value a.val-b.val and delta a.delta+b.delta, and the result's delta is >=
\* each operand's delta.
C2_AddSub ==
    /\ op = "Add" =>
        /\ Value(r) = FAdd(Value(x), Value(y))
        /\ Delta(r) = FAdd(Delta(x), Delta(y))
        /\ FLe(Delta(x), Delta(r))
        /\ FLe(Delta(y), Delta(r))
    /\ op = "Sub" =>
        /\ Value(r) = FSub(Value(x), Value(y))
        /\ Delta(r) = FAdd(Delta(x), Delta(y))
        /\ FLe(Delta(x), Delta(r))
        /\ FLe(Delta(y), Delta(r))

\* C2, as far as it holds: the values and deltas are those sums for all
\* operands, and the delta is >= each operand's delta when neither is NaN.
C2_AddSubOfNumbers ==
    op \in {"Add", "Sub"} =>
        /\ Value(r) = (IF op = "Add" THEN FAdd(Value(x), Value(y))
                       ELSE FSub(Value(x), Value(y)))
        /\ Delta(r) = FAdd(Delta(x), Delta(y))
        /\ IsNumber(Delta(x)) /\ IsNumber(Delta(y)) =>
              FLe(Delta(x), Delta(r)) /\ FLe(Delta(y), Delta(r))
\* C3: for a, b with nonzero central values, Mul(a,b) has value a.val*b.val
\* and Div(a,b) has value a.val/b.val, both with delta
\* |value * (a.RelDelta() + b.RelDelta())|, the relative errors added;
\* Mul(New(1,2), New(3,4)) == New(3,10).
C3_MulDiv ==
    /\ op \in {"Mul", "Div"} /\ ~IsZero(Value(x)) /\ ~IsZero(Value(y)) =>
        /\ Value(r) = (IF op = "Mul" THEN FMul(Value(x), Value(y))
                       ELSE FDiv(Value(x), Value(y)))
        /\ Delta(r) = FAbs(FMul(Value(r), FAdd(RelDelta(x), RelDelta(y))))
    /\ op = "Mul" /\ x = New(F(1), F(2)) /\ y = New(F(3), F(4)) => r = New(F(3), F(10))

\* The product of the test: Mul(New(1,2), New(3,4)) returned New(3,10).
C3_Witness ==
    /\ op = "Mul"
    /\ x = New(F(1), F(2))
    /\ y = New(F(3), F(4))
    /\ r = Float64(F(3), F(10))

C5_Overlap ==
    op = "Overlap" =>
        /\ b <=> (~FLe(Max(x), Min(y)) /\ ~FLe(Max(y), Min(x)))
        /\ b <=> Overlap(y, x)
        /\ b => ~Lt(x, y) /\ ~Le(x, y) /\ ~Gt(x, y) /\ ~Ge(x, y)

\* Overlap(New(1,1), New(2,1)), the second case of the test, answered true.
C5_Witness ==
    /\ op = "Overlap"
    /\ x = New(F(1), F(1))
    /\ y = New(F(2), F(1))
    /\ b

\* The closed intervals of f and t share at least one point.
SharePoint(f, t) ==
    /\ FLe(Min(f), Max(f))
    /\ FLe(Min(t), Max(t))
    /\ FLe(Min(f), Max(t))
    /\ FLe(Min(t), Max(f))

\* The intervals of f and t meet end to end.
Touching(f, t) == FEq(Max(f), Min(t)) \/ FEq(Max(t), Min(f))

NumberBounds(f) == IsNumber(Min(f)) /\ IsNumber(Max(f))

\* C6 as claimed: Overlap(f,t) is true iff the closed intervals of f and t
\* share at least one point, also when they touch at a single endpoint.
C6_OverlapIffSharePoint == op = "Overlap" => (b <=> SharePoint(x, y))

\* C6 amended: Overlap(f,t) is true iff neither f.Max() <= t.Min() nor
\* t.Max() <= f.Min(); for bounds that are numbers that is f.Max() > t.Min()
\* and t.Max() > f.Min(), the intervals then share a point, and intervals
\* that meet end to end do not overlap.
C6_OverlapStrict ==
    op = "Overlap" =>
        /\ b <=> (~FLe(Max(x), Min(y)) /\ ~FLe(Max(y), Min(x)))
        /\ NumberBounds(x) /\ NumberBounds(y) =>
              /\ b <=> (FLt(Min(y), Max(x)) /\ FLt(Min(x), Max(y)))
              /\ b => SharePoint(x, y)
        /\ Touching(x, y) => ~b

\* Two intervals that share exactly their endpoint, and do not overlap.
C6_Witness ==
    /\ op = "Overlap"
    /\ x = New(F(0), F(1))
    /\ y = New(F(2), F(1))
    /\ SharePoint(x, y)
    /\ ~b

\* C7: as documented, f.Gt(t) is true iff f.Min() > t.Max() (it is t.Lt(f)),
\* f.Ge(t) iff f.Min() >= t.Max() (it is t.Le(f)), and Gt implies Ge.
C7_GtGeAsDocumented ==
    /\ op = "Gt" => (b <=> FLt(Max(y), Min(x))) /\ (b => Ge(x, y))
    /\ op = "Ge" => (b <=> FLe(Max(y), Min(x)))
\* a + b and a - b are computed without rounding or overflow.
ExactSum(a, c) ==
    /\ IsFin(a)
    /\ IsFin(c)
    /\ LET z == Signed(a) + Signed(c) IN Representable(IF z < 0 THEN 0 - z ELSE z)

ExactDiff(a, c) == ExactSum(a, FNeg(c))

\* a / 2 is computed without rounding.
ExactHalf(a) == IsFin(a) /\ a.m % 2 = 0

\* (min+max)/2 and (max-min)/2 are computed without rounding or overflow.
ExactMidpoint(min, max) ==
    /\ ExactSum(min, max)
    /\ ExactHalf(FAdd(min, max))
    /\ ExactDiff(max, min)
    /\ ExactHalf(FSub(max, min))

\* What NewMinMax(u, v) returns, apart from the bounds of the result.
MinMaxOutcome ==
    /\ (err # "nil") <=> FLt(v, u)
    /\ err # "nil" => r = ZeroFloat64
    /\ err = "nil" =>
        /\ Value(r) = FDiv(FAdd(u, v), F(2))
        /\ Delta(r).s = 0
        /\ Delta(r) = FAbs(FDiv(FSub(v, u), F(2)))
    /\ FEq(u, v) => err = "nil" /\ IsZero(Delta(r))
    /\ u = F(1) /\ v = F(10) => r = Float64(Half(11), Half(9))

\* C8 as claimed: NewMinMax(min,max) fails iff max < min, returning the zero
\* Float64; otherwise it returns value (min+max)/2 and delta |(max-min)/2|,
\* so that the result's Min() == min and Max() == max.
C8_MinMaxBounds ==
    op = "NewMinMax" =>
        /\ MinMaxOutcome
        /\ err = "nil" => FEq(Min(r), u) /\ FEq(Max(r), v)

\* C8 amended: the same, with the result's Min() == min and Max() == max
\* when (min+max)/2 and (max-min)/2 are computed exactly.
C8_MinMaxBoundsWhenExact ==
    op = "NewMinMax" =>
        /\ MinMaxOutcome
        /\ err = "nil" /\ ExactMidpoint(u, v) => FEq(Min(r), u) /\ FEq(Max(r), v)

\* NewMinMax(1,10) returned {5.5, 4.5}, whose bounds are 1 and 10.
C8_Witness ==
    /\ op = "NewMinMax"
    /\ u = F(1)
    /\ v = F(10)
    /\ err = "nil"
    /\ r = Float64(Half(11), Half(9))
    /\ Min(r) = F(1)
    /\ Max(r) = F(10)

Same64(f, t) == FEq(Value(f), Value(t)) /\ FEq(Delta(f), Delta(t))

\* C9 as claimed: for every a with finite value and delta,
\* NewMinMax(a.Min(), a.Max()) succeeds and returns a.
C9_RoundTrip ==
    op = "NewMinMaxOf" /\ Finite64(x) => err = "nil" /\ Same64(r, x)

\* C9 amended: for every a with finite value and delta,
\* NewMinMax(a.Min(), a.Max()) succeeds; it returns a when a.Min(), a.Max()
\* and the midpoint and half-width of the two are computed exactly.
C9_RoundTripWhenExact ==
    op = "NewMinMaxOf" /\ Finite64(x) =>
        /\ err = "nil"
        /\ /\ ExactDiff(Value(x), Delta(x))
           /\ ExactSum(Value(x), Delta(x))
           /\ ExactMidpoint(FSub(Value(x), Delta(x)), FAdd(Value(x), Delta(x)))
           => Same64(r, x)

\* New(3,1) came back from NewMinMax(2, 4).
C9_Witness ==
    /\ op = "NewMinMaxOf"
    /\ x = New(F(3), F(1))
    /\ u = F(2)
    /\ v = F(4)
    /\ err = "nil"
    /\ r = x

\* C10: New always succeeds, New(v,d).Value() == v, New(v,d).Delta() == |d|,
\* New(v,d) == New(v,-d), and New(0,0) is the zero Float64.
C10_New ==
    op = "New" =>
        /\ err = "nil"
        /\ Value(r) = u
        /\ Delta(r).k = v.k /\ Delta(r).m = v.m /\ Delta(r).s = 0
        /\ r = New(u, FNeg(v))
        /\ IsZero(u) /\ u.s = 0 /\ IsZero(v) => r = ZeroFloat64

\* New(2,-1), a negative delta, returned {2, 1}.
C10_Witness ==
    /\ op = "New"
    /\ u = F(2)
    /\ v = F(-1)
    /\ r = Float64(F(2), F(1))

\* C11: Div never fails, and for every finite a and every b whose central
\* value is exactly zero, whatever b.delta and a are (b = New(0,0) and
\* a.val = 0 included), Div(a,b) has an infinite (+Inf) delta.
C11_DivByZero ==
    op = "Div" =>
        /\ err = "nil"
        /\ Finite64(x) /\ Finite64(y) /\ IsZero(Value(y)) => Delta(r) = Inf(0)

\* C11, as far as it holds: the delta is +Inf when a.val and b.delta are not
\* zero, and NaN when either is.
C11_DivByZeroOfNonzero ==
    op = "Div" /\ Finite64(x) /\ Finite64(y) /\ IsZero(Value(y)) =>
        Delta(r) = (IF IsZero(Value(x)) \/ IsZero(Delta(y)) THEN NaN ELSE Inf(0))

\* a * c and a / c are computed without rounding or overflow.
ExactProd(a, c) ==
    /\ IsFin(a)
    /\ IsFin(c)
    /\ (a.m * c.m) % Unit = 0
    /\ Representable((a.m * c.m) \div Unit)

ExactQuot(a, c) ==
    /\ IsFin(a)
    /\ IsFin(c)
    /\ c.m # 0
    /\ (a.m * Unit) % c.m = 0
    /\ Representable((a.m * Unit) \div c.m)

\* Every step of ((val+eps)^2 - (val-eps)^2) / (2*eps) is exact.
ExactSquareDifference(val, eps) ==
    LET hi == FAdd(val, eps)
        lo == FSub(val, eps)
        fmax == FMul(hi, hi)
        fmin == FMul(lo, lo)
    IN  /\ ExactSum(val, eps)
        /\ ExactDiff(val, eps)
        /\ ExactProd(hi, hi)
        /\ ExactProd(lo, lo)
        /\ ExactDiff(fmax, fmin)
        /\ ExactProd(F(2), eps)
        /\ ExactQuot(FSub(fmax, fmin), FMul(F(2), eps))

\* |(fx(val+eps) - fx(val-eps)) / (2*eps) * delta|
CentralDifference(g, val, eps, delta) ==
    FAbs(FMul(FDiv(FSub(Call(g, FAdd(val, eps)), Call(g, FSub(val, eps))),
                   FMul(F(2), eps)),
              delta))

\* What C12 says of every fx: the value at the centre, the central
\* difference times the delta; and of x*x when the arithmetic is exact.
GeneralPath ==
    /\ Value(r) = Call(fx, Value(x))
    /\ Delta(r) = CentralDifference(fx, Value(x), u, Delta(x))
    /\ fx = "Square" /\ ExactSquareDifference(Value(x), u) =>
          /\ Value(r) = FMul(Value(x), Value(x))
          /\ Delta(r) = FAbs(FMul(FMul(F(2), Value(x)), Delta(x)))

\* C12: for fx other than math.Log and math.Exp and eps != 0, x.Apply(fx, eps)
\* has value fx(x.val) and delta |(fx(x.val+eps) - fx(x.val-eps)) / (2*eps) *
\* x.delta|; for fx(y) = y*y that is value x.val^2 and delta |2*x.val*x.delta|
\* in exact arithmetic, and for a constant fx the delta is 0.
C12_ApplyGeneral ==
    op = "Apply" /\ fx \notin {"Log", "Exp"} /\ ~IsZero(u) =>
        /\ GeneralPath
        /\ fx = "Const" => Delta(r) = Zero

\* C12, as far as it holds: the delta of a constant fx is 0 when x.delta is
\* finite, and NaN when x.delta is infinite or NaN.
C12_ApplyGeneralOfFinite ==
    op = "Apply" /\ fx \notin {"Log", "Exp"} /\ ~IsZero(u) =>
        /\ GeneralPath
        /\ fx = "Const" => Delta(r) = (IF IsFin(Delta(x)) THEN Zero ELSE NaN)

\* New(1,1).Apply(x*x, 1) returned {1, 2}: every step was exact.
C12_SquareReached ==
    /\ op = "Apply"
    /\ fx = "Square"
    /\ x = New(F(1), F(1))
    /\ u = F(1)
    /\ ExactSquareDifference(Value(x), u)
    /\ r = New(F(1), F(2))

\* C13 as claimed: when fx is math.Log, x.Apply(fx, eps) is the same for every
\* eps, its value is ln(x.val), and its delta is x.delta / x.val with no
\* absolute value taken, so that it carries the sign of x.val.
C13_LogFastPath ==
    op = "Apply" /\ fx = "Log" =>
        /\ \A eps \in EpsInputs : r = Apply(x, fx, eps)
        /\ Value(r) = MathLog(Value(x))
        /\ Delta(r) = FDiv(Delta(x), Value(x))

\* C13 amended: when fx is math.Log, x.Apply(fx, eps) is the same for every
\* eps, its value is ln(x.val), and its delta is |x.delta / x.val|: New takes
\* the absolute value of the quotient.
C13_LogFastPathAbs ==
    op = "Apply" /\ fx = "Log" =>
        /\ \A eps \in EpsInputs : r = Apply(x, fx, eps)
        /\ Value(r) = MathLog(Value(x))
        /\ Delta(r) = FAbs(FDiv(Delta(x), Value(x)))

\* New(-1,1).Apply(math.Log, 0) returned delta 1, not -1.
C13_Witness ==
    /\ op = "Apply"
    /\ fx = "Log"
    /\ x = New(F(-1), F(1))
    /\ u = F(0)
    /\ FDiv(Delta(x), Value(x)) = F(-1)
    /\ Delta(r) = F(1)

\* The tokens of a string: what is left of it between the separators once
\* the spaces are gone.
Tokens(s) == Split(StripSpace(s))

\* C14: Parse, after stripping the whitespace and splitting on the separator:
\* one well-formed number gives (value, 0); two well-formed numbers around one
\* separator give (value, |delta|); a malformed value token gives the
\* central-value error, whatever the delta token is; a malformed delta token
\* after a well-formed value gives the delta error; more than one separator
\* gives the structure error; every error comes with the zero Float64.
C14_Parse ==
    op = "Parse" =>
        LET toks == Tokens(str)
            n == Len(toks)
            val == ParseFloat(toks[1])
            delta == ParseFloat(toks[2])
        IN  /\ n = 1 /\ val.ok => err = "nil" /\ r = Float64(val.f, Zero)
            /\ n = 2 /\ val.ok /\ delta.ok =>
                  /\ err = "nil"
                  /\ Value(r) = val.f
                  /\ Delta(r) = FAbs(delta.f)
            /\ n \in {1, 2} /\ ~val.ok => err = "exact"
            /\ n = 2 /\ val.ok /\ ~delta.ok => err = "delta"
            /\ n > 2 => err = "approx"
            /\ err # "nil" => r = ZeroFloat64

\* Parse("3±--1") failed on the delta and returned the zero Float64.
C14_Witness ==
    /\ op = "Parse"
    /\ str = <<"3", Sep, "-", "-", "1">>
    /\ ParseFloat(Tokens(str)[1]).ok
    /\ err = "delta"
    /\ r = ZeroFloat64

\* Parse("3 ±-1") returned {3, 1}: the space and the sign are gone.
C14_SignDiscarded ==
    /\ op = "Parse"
    /\ str = <<"3", " ", Sep, "-", "1">>
    /\ err = "nil"
    /\ r = Float64(F(3), F(1))

\* C15: for all f and every scalar c, positive, negative or zero, f.Mul(c)
\* has value c*f.val and delta |c*f.delta| = |c|*f.delta, also when f.val is
\* zero; the receiver is the Float64 it was.
C15_ScalarMul ==
    op = "ScalarMul" =>
        /\ err = "nil"
        /\ x \in Values
        /\ Value(r) = FMul(u, Value(x))
        /\ Delta(r) = FAbs(FMul(u, Delta(x)))
        /\ Delta(r) = FMul(FAbs(u), Delta(x))

\* New(0,2).Mul(-1) returned {-0, 2}.
C15_Witness ==
    /\ op = "ScalarMul"
    /\ x = New(F(0), F(2))
    /\ u = F(-1)
    /\ IsZero(Value(r))
    /\ Delta(r) = F(2)

\* The numbers of an interval: every finite float64 p with
\* f.Min() <= p <= f.Max().
Points(f) == {p \in Floats : IsFin(p) /\ FLe(Min(f), p) /\ FLe(p, Max(f))}

\* lo <= num/den <= hi, for the exact number num/den quanta (den > 0).
Between(num, den, lo, hi) ==
    /\ ~IsNaN(lo)
    /\ ~IsNaN(hi)
    /\ IF IsInf(lo) THEN lo.s = 1 ELSE Signed(lo) * den <= num
    /\ IF IsInf(hi) THEN hi.s = 0 ELSE num <= Signed(hi) * den

\* The exact number num/den quanta lies in [f.Min(), f.Max()].
Within(num, den, f) == Between(num, den, Min(f), Max(f))

\* The exact x+y, x-y or x*y of two points, as (numerator, denominator)
\* in quanta.
Exactly(name, p, q) ==
    CASE name = "Add" -> <<Signed(p) + Signed(q), 1>>
      [] name = "Sub" -> <<Signed(p) - Signed(q), 1>>
      [] OTHER -> <<Signed(p) * Signed(q), Unit>>

\* C16 as claimed: for all a, b (with nonzero central values for Mul) and
\* every x in [a.Min(), a.Max()] and y in [b.Min(), b.Max()], x+y lies in the
\* interval of Add(a,b), x-y in that of Sub(a,b), and x*y in that of Mul(a,b).
C16_WorstCase ==
    /\ op \in {"Add", "Sub", "Mul"}
    /\ op = "Mul" => ~IsZero(Value(x)) /\ ~IsZero(Value(y))
    => LET lo == Min(r)
           hi == Max(r)
       IN  \A p \in Points(x), q \in Points(y) :
              LET z == Exactly(op, p, q) IN Between(z[1], z[2], lo, hi)

\* f.Min() and f.Max() are computed without rounding or overflow.
ExactBounds(f) == ExactSum(f.val, f.delta) /\ ExactDiff(f.val, f.delta)

\* Every step of Add(x,y) or Sub(x,y), and every bound, is exact.
ExactAddSub ==
    /\ ExactBounds(x)
    /\ ExactBounds(y)
    /\ IF op = "Add" THEN ExactSum(Value(x), Value(y)) ELSE ExactDiff(Value(x), Value(y))
    /\ ExactSum(Delta(x), Delta(y))
    /\ ExactBounds(r)

\* Every step of Mul(x,y), and every bound of its operands, is exact.
ExactMul ==
    /\ ExactBounds(x)
    /\ ExactBounds(y)
    /\ ExactQuot(Delta(x), Value(x))
    /\ ExactQuot(Delta(y), Value(y))
    /\ ExactSum(RelDelta(x), RelDelta(y))
    /\ ExactProd(Value(x), Value(y))
    /\ ExactProd(Value(r), FAdd(RelDelta(x), RelDelta(y)))

Magnitude(i) == IF i < 0 THEN 0 - i ELSE i

\* C16 amended: when the sums and the bounds are computed exactly, x+y lies in
\* the interval of Add(a,b) and x-y in that of Sub(a,b) for every x in
\* [a.Min(), a.Max()] and y in [b.Min(), b.Max()].  Mul is of first order:
\* when its steps are exact its delta is |a.val|*b.delta + |b.val|*a.delta,
\* and x*y is within delta + a.delta*b.delta of the value, not within delta.
C16_FirstOrder ==
    /\ op \in {"Add", "Sub"} /\ ExactAddSub =>
          LET lo == Min(r)
              hi == Max(r)
          IN  \A p \in Points(x), q \in Points(y) :
                 LET z == Exactly(op, p, q) IN Between(z[1], z[2], lo, hi)
    /\ op = "Mul" /\ ~IsZero(Value(x)) /\ ~IsZero(Value(y)) /\ ExactMul =>
          /\ Delta(r).m * Unit =
                Value(x).m * Delta(y).m + Value(y).m * Delta(x).m
          /\ LET centre == Signed(Value(x)) * Signed(Value(y))
                 bound == Delta(r).m * Unit + Delta(x).m * Delta(y).m
             IN  \A p \in Points(x), q \in Points(y) :
                    Magnitude(Signed(p) * Signed(q) - centre) <= bound

\* Mul(New(1,1), New(2,1)) returned {2, 3}, every step exact: 2 and 3 are
\* points of the operands, and 2*3 = 6 is above the result's Max() of 5.
C16_Witness ==
    /\ op = "Mul"
    /\ x = New(F(1), F(1))
    /\ y = New(F(2), F(1))
    /\ ExactMul
    /\ r = New(F(2), F(3))
    /\ F(2) \in Points(x)
    /\ F(3) \in Points(y)
    /\ ~Within(Signed(F(2)) * Signed(F(3)), Unit, r)

\* Add(New(1,1), New(2,1)) returned {3, 2}, every step exact: 2 + 3 is its
\* Max().
C16_AddReached ==
    /\ op = "Add"
    /\ x = New(F(1), F(1))
    /\ y = New(F(2), F(1))
    /\ ExactAddSub
    /\ Max(r) = F(5)
====
